---- MODULE Spec2Model ----
(***************************************************************************)
(* A model of the FM-index of src/FM_Index.py: the text with its sentinel, *)
(* the suffix array built by prefix doubling, the BWT, the dense rank      *)
(* table, the C-table, backward search, the binary-search variant and the  *)
(* two point mutations.                                                    *)
(*                                                                         *)
(* Characters are their code points (ord).  Python strings and lists are   *)
(* TLA+ sequences: the element the code calls x[i] is x[i+1] here, while   *)
(* every VALUE the code stores (suffix-array entries, l, r, results,       *)
(* delete indices) keeps the code's 0-based numbering.                     *)
(***************************************************************************)
EXTENDS Integers, Sequences, FiniteSets, TLC

\* ord('$'), the sentinel appended by __init__ and re-appended by insert.
Sentinel == 36

\* The characters callers may use: '#' (35, below the sentinel), '$' itself
\* (nothing in the code rejects it) and 'a' (97, above the sentinel).
Alphabet == {35, 36, 97}

\* Longest text (sentinel excluded) and longest pattern that are explored.
MaxText == 3
MaxPattern == 2

StringsUpTo(n) == UNION {[1..m -> Alphabet] : m \in 0..n}

Min(a, b) == IF a <= b THEN a ELSE b

----------------------------------------------------------------------------
(* Python built-ins used by the code *)

\* s[a:b] for 0 <= a, with b clamped to len(s) as Python slicing does.
Slice(s, a, b) == SubSeq(s, a + 1, Min(b, Len(s)))

\* seq[i] is defined for -len <= i < len; a negative i counts from the end.
Indexable(seq, i) == -Len(seq) <= i /\ i < Len(seq)
At(seq, i) == IF i >= 0 THEN seq[i + 1] ELSE seq[Len(seq) + i + 1]

\* str < str : code-point order, a proper prefix is smaller.
RECURSIVE StrLess(_, _)
StrLess(a, b) ==
    IF a = <<>> THEN b # <<>>
    ELSE IF b = <<>> THEN FALSE
    ELSE IF Head(a) # Head(b) THEN Head(a) < Head(b)
    ELSE StrLess(Tail(a), Tail(b))

StrLessEq(a, b) == a = b \/ StrLess(a, b)

\* tuple < tuple for the (rank, next rank) sort keys.
PairLessFirstOnly(p, q) == p[1] < q[1]
PairLess(p, q) == p[1] < q[1] \/ (p[1] = q[1] /\ p[2] < q[2])

\* str.count(char)
Count(s, c) == Cardinality({i \in 1..Len(s) : s[i] = c})

\* sorted(set): ascending sequence of the members of a set of integers.
RECURSIVE SortedSeq(_)
SortedSeq(S) ==
    IF S = {} THEN <<>>
    ELSE LET m == CHOOSE x \in S : \A y \in S : x <= y
         IN <<m>> \o SortedSeq(S \ {m})

\* sorted(list) of integers.
SortedList(s) == SortedSeq({s[i] : i \in 1..Len(s)})

----------------------------------------------------------------------------
(* _build_suffix_array *)

\* The sort key of position i: (rank[i], rank[i+k] if i+k < n else -1).
SortKey(rank, k, n, i) ==
    <<rank[i + 1], IF i + k < n THEN rank[i + k + 1] ELSE -1>>

\* list.sort(key=...) is stable: x goes after every element whose key is
\* not greater than its own.
RECURSIVE InsertStable(_, _, _, _, _)
InsertStable(out, x, rank, k, n) ==
    IF out = <<>> THEN <<x>>
    ELSE IF PairLess(SortKey(rank, k, n, x), SortKey(rank, k, n, Head(out)))
         THEN <<x>> \o out
         ELSE <<Head(out)>> \o InsertStable(Tail(out), x, rank, k, n)

RECURSIVE SortByKey(_, _, _, _)
SortByKey(sa, rank, k, n) ==
    IF sa = <<>> THEN <<>>
    ELSE InsertStable(SortByKey(SubSeq(sa, 1, Len(sa) - 1), rank, k, n),
                      sa[Len(sa)], rank, k, n)

\* for i in range(1, n): temp[curr] = temp[prev] + (1 if keys differ else 0)
RECURSIVE Rerank(_, _, _, _, _, _)
Rerank(sa, rank, k, n, i, temp) ==
    IF i >= n THEN temp
    ELSE LET prev == sa[i]
             curr == sa[i + 1]
             step == IF SortKey(rank, k, n, curr) # SortKey(rank, k, n, prev)
                     THEN 1 ELSE 0
         IN Rerank(sa, rank, k, n, i + 1,
                   [temp EXCEPT ![curr + 1] = temp[prev + 1] + step])

\* while k < n: sort, rerank, k *= 2, break when rank[sa[-1]] == n - 1.
\* Returns the suffix array with how the loop ended and after how many passes.
RECURSIVE DoublingLoop(_, _, _, _, _)
DoublingLoop(sa, rank, k, n, passes) ==
    IF ~(k < n) THEN [sa |-> sa, exit |-> "bound", passes |-> passes]
    ELSE LET sorted == SortByKey(sa, rank, k, n)
             temp == Rerank(sorted, rank, k, n, 1, [j \in 1..n |-> 0])
         IN IF temp[sorted[n] + 1] = n - 1
            THEN [sa |-> sorted, exit |-> "early", passes |-> passes + 1]
            ELSE DoublingLoop(sorted, temp, 2 * k, n, passes + 1)

build_suffix_array(s) ==
    LET n == Len(s)
    IN DoublingLoop([i \in 1..n |-> i - 1], s, 1, n, 0)

----------------------------------------------------------------------------
(* _build_bwt, _build_rank_wavelet_tree, _build_c_table *)

build_bwt_following(txt, sa) ==
    [i \in 1..Len(sa) |-> IF sa[i] # 0 THEN txt[sa[i] + 1] ELSE Sentinel]
build_bwt(txt, sa) ==
    [i \in 1..Len(sa) |-> IF sa[i] # 0 THEN txt[sa[i]] ELSE Sentinel]

\* for i, char in enumerate(bwt): counts[char] += 1; rank[c][i] = counts[c]
RECURSIVE RankScan(_, _, _, _)
RankScan(b, i, counts, rank) ==
    IF i > Len(b) THEN rank
    ELSE LET counts2 == [counts EXCEPT ![b[i]] = @ + 1]
         IN RankScan(b, i + 1, counts2,
                     [c \in DOMAIN rank |-> [rank[c] EXCEPT ![i] = counts2[c]]])

build_rank_exclusive(b) ==
    LET alphabet == {b[i] : i \in 1..Len(b)}
        full == RankScan(b, 1, [c \in alphabet |-> 0],
                         [c \in alphabet |-> [i \in 1..Len(b) |-> 0]])
    IN [c \in alphabet |->
          [i \in 1..Len(b) |-> IF b[i] = c THEN full[c][i] - 1 ELSE full[c][i]]]
build_rank_wavelet_tree(b) ==
    LET alphabet == {b[i] : i \in 1..Len(b)}
    IN RankScan(b, 1, [c \in alphabet |-> 0],
                [c \in alphabet |-> [i \in 1..Len(b) |-> 0]])

\* for char in sorted_chars: c_table[char] = total; total += bwt.count(char)
RECURSIVE CTableScan(_, _, _, _)
CTableScan(b, chars, total, table) ==
    IF chars = <<>> THEN table
    ELSE CTableScan(b, Tail(chars), total + Count(b, Head(chars)),
                    [table EXCEPT ![Head(chars)] = total])

build_c_table_distinct(b) ==
    [c \in {b[i] : i \in 1..Len(b)} |->
        Cardinality({d \in {b[i] : i \in 1..Len(b)} : d < c})]
build_c_table(b) ==
    LET chars == SortedSeq({b[i] : i \in 1..Len(b)})
    IN CTableScan(b, chars, 0, [c \in {b[i] : i \in 1..Len(b)} |-> 0])

\* The four derived structures of a text, built in the order of __init__
\* and of _incremental_update.
incremental_update(txt) ==
    LET built == build_suffix_array(txt)
        b == build_bwt(txt, built.sa)
    IN [suffix_array |-> built.sa,
        sa_loop |-> [exit |-> built.exit, passes |-> built.passes],
        bwt |-> b,
        rank_array |-> build_rank_wavelet_tree(b),
        c_table |-> build_c_table(b)]

----------------------------------------------------------------------------
(* search: backward search *)

\* One loop iteration for a character of the C-table:
\*   l = c_table[char] + (rank_array[char][l - 1] if l > 0 else 0)
\*   r = c_table[char] + rank_array[char][r] - 1
NextRangeInclusiveEnd(ctab, rnk, char, l, r) ==
    [l |-> ctab[char] + (IF l > 0 THEN At(rnk[char], l - 1) ELSE 0),
     r |-> ctab[char] + At(rnk[char], r)]
NextRange(ctab, rnk, char, l, r) ==
    [l |-> ctab[char] + (IF l > 0 THEN At(rnk[char], l - 1) ELSE 0),
     r |-> ctab[char] + At(rnk[char], r) - 1]

\* The rank-table positions one iteration reads.
RankLookups(l, r) == (IF l > 0 THEN {l - 1} ELSE {}) \cup {r}

\* for char in reversed(pattern): ... ; j characters are consumed so far.
\* trace records every iteration: the range it leaves, whether it returned
\* early, and the rank-table positions it read.
RECURSIVE SearchLoop(_, _, _, _, _, _, _, _)
SearchLoop(sa, ctab, rnk, pattern, j, l, r, trace) ==
    IF j = Len(pattern)
    THEN IF l <= r /\ (~Indexable(sa, l) \/ ~Indexable(sa, r))
         THEN [outcome |-> "IndexError", result |-> <<>>, trace |-> trace]
         ELSE [outcome |-> "ok",
               result |-> SortedList([i \in 1..(r - l + 1) |-> At(sa, l + i - 1)]),
               trace |-> trace]
    ELSE LET char == pattern[Len(pattern) - j]
         IN IF char \notin DOMAIN ctab
            THEN [outcome |-> "ok", result |-> <<>>,
                  trace |-> Append(trace, [consumed |-> j + 1, early |-> TRUE,
                                           l |-> l, r |-> r, lookups |-> {}])]
            ELSE IF \E i \in RankLookups(l, r) : ~Indexable(rnk[char], i)
            THEN [outcome |-> "IndexError", result |-> <<>>,
                  trace |-> Append(trace, [consumed |-> j + 1, early |-> TRUE,
                                           l |-> l, r |-> r,
                                           lookups |-> RankLookups(l, r)])]
            ELSE LET nxt == NextRange(ctab, rnk, char, l, r)
                     entry == [consumed |-> j + 1, early |-> nxt.l > nxt.r,
                               l |-> nxt.l, r |-> nxt.r,
                               lookups |-> RankLookups(l, r)]
                 IN IF nxt.l > nxt.r
                    THEN [outcome |-> "ok", result |-> <<>>,
                          trace |-> Append(trace, entry)]
                    ELSE SearchLoop(sa, ctab, rnk, pattern, j + 1, nxt.l, nxt.r,
                                    Append(trace, entry))

search(sa, b, ctab, rnk, pattern) ==
    IF pattern = <<>>
    THEN [outcome |-> "ValueError", result |-> <<>>, trace |-> <<>>]
    ELSE SearchLoop(sa, ctab, rnk, pattern, 0, 0, Len(b) - 1, <<>>)

----------------------------------------------------------------------------
(* _memory_efficient_search: two binary searches over the suffix array *)

RECURSIVE bisect_left_sa(_, _, _, _, _)
bisect_left_sa(txt, sa, pattern, lo, hi) ==
    IF ~(lo < hi) THEN lo
    ELSE LET mid == (lo + hi) \div 2
         IN IF StrLess(Slice(txt, sa[mid + 1], sa[mid + 1] + Len(pattern)), pattern)
            THEN bisect_left_sa(txt, sa, pattern, mid + 1, hi)
            ELSE bisect_left_sa(txt, sa, pattern, lo, mid)

RECURSIVE bisect_right_sa(_, _, _, _, _)
bisect_right_sa(txt, sa, pattern, lo, hi) ==
    IF ~(lo < hi) THEN lo
    ELSE LET mid == (lo + hi) \div 2
         IN IF StrLessEq(Slice(txt, sa[mid + 1], sa[mid + 1] + Len(pattern)), pattern)
            THEN bisect_right_sa(txt, sa, pattern, mid + 1, hi)
            ELSE bisect_right_sa(txt, sa, pattern, lo, mid)

memory_efficient_search(txt, sa, pattern) ==
    IF pattern = <<>>
    THEN [outcome |-> "ValueError", result |-> <<>>, trace |-> <<>>]
    ELSE LET l == bisect_left_sa(txt, sa, pattern, 0, Len(sa))
             r == bisect_right_sa(txt, sa, pattern, 0, Len(sa))
         IN [outcome |-> "ok", result |-> Slice(sa, l, r), trace |-> <<>>]

----------------------------------------------------------------------------
(* insert and delete: the validation and the splice *)

\* insert raises unless len(char) == 1.
InsertAccepted(char) == Len(char) = 1

\* text[:-1] + char + "$"
InsertTextAtFront(txt, char) == char \o txt
InsertText(txt, char) == SubSeq(txt, 1, Len(txt) - 1) \o char \o <<Sentinel>>

\* delete raises unless 0 <= index < len(text) - 1.
DeleteAcceptedWithSentinel(txt, index) == 0 <= index /\ index < Len(txt)
DeleteAccepted(txt, index) == 0 <= index /\ index < Len(txt) - 1

\* text[:index] + text[index + 1:]
DeleteText(txt, index) == Slice(txt, 0, index) \o Slice(txt, index + 1, Len(txt))

----------------------------------------------------------------------------
(* The index and its callers *)

VARIABLES
    self,     \* the FMIndex object: text, suffix_array, bwt, rank_array,
              \* c_table, and sa_loop (how the last prefix-doubling loop ended)
    S,        \* the reference plain string run side by side
    refined,  \* the construction text and every inserted char were free of '$'
    fresh,    \* no insert or delete has succeeded since construction
    lastOp,   \* the last call: construct, search, msearch, insert, delete
    argStr,   \* its string argument (pattern or inserted string)
    argIdx,   \* its integer argument (delete index)
    ret       \* how it ended: outcome ("ok" or the exception raised), the
              \* result list of a search, the trace of a backward search

vars == <<self, S, refined, fresh, lastOp, argStr, argIdx, ret>>

\* The object whose text is txt and whose derived structures are rebuilt.
Rebuilt(txt) ==
    LET built == incremental_update(txt)
    IN [text |-> txt,
        suffix_array |-> built.suffix_array,
        sa_loop |-> built.sa_loop,
        bwt |-> built.bwt,
        rank_array |-> built.rank_array,
        c_table |-> built.c_table]

Returned(out) == [outcome |-> out, result |-> <<>>, trace |-> <<>>]

\* FMIndex(T) for a non-empty T (the empty text raises and builds nothing).
Init ==
    \E T \in StringsUpTo(MaxText) \ {<<>>} :
        /\ self = Rebuilt(T \o <<Sentinel>>)
        /\ S = T
        /\ refined = (\A i \in 1..Len(T) : T[i] # Sentinel)
        /\ fresh = TRUE
        /\ lastOp = "construct"
        /\ argStr = T
        /\ argIdx = 0
        /\ ret = Returned("ok")

Search(pattern) ==
    /\ lastOp' = "search"
    /\ argStr' = pattern
    /\ argIdx' = 0
    /\ ret' = search(self.suffix_array, self.bwt, self.c_table, self.rank_array,
                     pattern)
    /\ UNCHANGED <<self, S, refined, fresh>>

MemorySearch(pattern) ==
    /\ lastOp' = "msearch"
    /\ argStr' = pattern
    /\ argIdx' = 0
    /\ ret' = memory_efficient_search(self.text, self.suffix_array, pattern)
    /\ UNCHANGED <<self, S, refined, fresh>>

Insert(char) ==
    /\ lastOp' = "insert"
    /\ argStr' = char
    /\ argIdx' = 0
    /\ IF ~InsertAccepted(char)
       THEN /\ ret' = Returned("ValueError")
            /\ UNCHANGED <<self, S, refined, fresh>>
       ELSE /\ Len(self.text) - 1 < MaxText
            /\ ret' = Returned("ok")
            /\ self' = Rebuilt(InsertText(self.text, char))
            /\ S' = Append(S, char[1])
            /\ refined' = (refined /\ char[1] # Sentinel)
            /\ fresh' = FALSE

Delete(idx) ==
    /\ lastOp' = "delete"
    /\ argStr' = <<>>
    /\ argIdx' = idx
    /\ IF ~DeleteAccepted(self.text, idx)
       THEN /\ ret' = Returned("ValueError")
            /\ UNCHANGED <<self, S, refined, fresh>>
       ELSE /\ ret' = Returned("ok")
            /\ self' = Rebuilt(DeleteText(self.text, idx))
            /\ S' = [j \in 1..(Len(S) - 1) |-> IF j <= idx THEN S[j] ELSE S[j + 1]]
            /\ UNCHANGED refined
            /\ fresh' = FALSE

Next ==
    \/ \E pattern \in StringsUpTo(MaxPattern) : Search(pattern)
    \/ \E pattern \in StringsUpTo(MaxPattern) : MemorySearch(pattern)
    \/ \E char \in StringsUpTo(2) : Insert(char)
    \/ \E idx \in -2..(MaxText + 1) : Delete(idx)

Spec == Init /\ [][Next]_vars

----------------------------------------------------------------------------
(* Vocabulary of the properties *)

\* The members of a list, and whether it is strictly ascending.
Range(s) == {s[i] : i \in 1..Len(s)}
StrictlyAscending(s) == \A i \in 1..(Len(s) - 1) : s[i] < s[i + 1]

\* The suffix of txt that starts at the 0-based position p.
Suffix(txt, p) == SubSeq(txt, p + 1, Len(txt))

StartsWith(s, prefix) ==
    Len(prefix) <= Len(s) /\ SubSeq(s, 1, Len(prefix)) = prefix

\* The 0-based offsets at which p occurs as a contiguous substring of T.
Occurrences(T, p) ==
    {i \in 0..(Len(T) - Len(p)) : SubSeq(T, i + 1, i + Len(p)) = p}

SentinelFree(s) == \A i \in 1..Len(s) : s[i] # Sentinel

----------------------------------------------------------------------------
(* Properties *)

\* C1: on a freshly constructed index FMIndex(T), search(p) for a non-empty
\* pattern p returns exactly the 0-based offsets of T (sentinel excluded) at
\* which p occurs, in ascending order without duplicates, and [] when p does
\* not occur.
SearchReturnsOccurrences ==
    (fresh /\ lastOp = "search" /\ argStr # <<>>) =>
        /\ ret.outcome = "ok"
        /\ StrictlyAscending(ret.result)
        /\ Range(ret.result) = Occurrences(S, argStr)

\* C2: in every state of the index the sentinel is the last character of
\* Text and occurs at no other position of Text.
SentinelOnlyLast ==
    /\ Len(self.text) >= 1
    /\ self.text[Len(self.text)] = Sentinel
    /\ \A i \in 1..(Len(self.text) - 1) : self.text[i] # Sentinel

\* C3: while the construction text and every inserted character are free of
\* '$', Text equals the reference string S followed by '$', and search(p) for
\* a non-empty p free of '$' returns exactly the ascending offsets of p in S.
IndexRefinesString ==
    refined =>
        /\ self.text = S \o <<Sentinel>>
        /\ (lastOp = "search" /\ argStr # <<>> /\ SentinelFree(argStr)) =>
              /\ ret.outcome = "ok"
              /\ StrictlyAscending(ret.result)
              /\ Range(ret.result) = Occurrences(S, argStr)

IndexRefinesStringWitness ==
    /\ refined
    /\ ~fresh
    /\ lastOp = "search"
    /\ Len(argStr) = 2
    /\ Len(ret.result) >= 2
    /\ \E i \in 1..Len(S) : S[i] < Sentinel

\* Text, Suffix Array, BWT, Rank Table and C-Table are what they were.
FieldsUnchanged ==
    /\ self'.text = self.text
    /\ self'.suffix_array = self.suffix_array
    /\ self'.bwt = self.bwt
    /\ self'.rank_array = self.rank_array
    /\ self'.c_table = self.c_table

\* C4: insert(s) with len(s) # 1, delete(i) with i outside [0, len(Text)-2]
\* and search of the empty pattern raise and leave Text, Suffix Array, BWT,
\* Rank Table and C-Table as they were; every other call of them succeeds.
FailedCallsChangeNothing ==
    [][ /\ (lastOp' = "insert") =>
              IF Len(argStr') # 1
              THEN /\ ret'.outcome = "ValueError"
                   /\ FieldsUnchanged
              ELSE ret'.outcome = "ok"
        /\ (lastOp' = "delete") =>
              IF argIdx' < 0 \/ argIdx' > Len(self.text) - 2
              THEN /\ ret'.outcome = "ValueError"
                   /\ FieldsUnchanged
              ELSE ret'.outcome = "ok"
        /\ (lastOp' = "search") =>
              IF argStr' = <<>>
              THEN /\ ret'.outcome = "ValueError"
                   /\ FieldsUnchanged
              ELSE ret'.outcome = "ok"
      ]_vars

FailedCallsChangeNothingWitness ==
    /\ ~fresh
    /\ lastOp = "delete"
    /\ ret.outcome = "ValueError"
    /\ argIdx = Len(self.text) - 1
    /\ Len(self.text) >= 3

\* C5: for every non-empty pattern, _memory_efficient_search returns the same
\* set of positions as search.
MemorySearchAgreesWithSearch ==
    (lastOp = "msearch" /\ argStr # <<>>) =>
        Range(ret.result) =
            Range(search(self.suffix_array, self.bwt, self.c_table,
                         self.rank_array, argStr).result)

\* C6: the suffix array is a permutation of 0..n-1 whose suffixes are in
\* strictly increasing code-point order (a proper prefix being smaller),
\* whether the doubling loop left by its early exit or because k >= n; the
\* index of the lone sentinel has the suffix array [0].
SuffixArraySorted ==
    LET n == Len(self.text)
    IN /\ Len(self.suffix_array) = n
       /\ Range(self.suffix_array) = 0..(n - 1)
       /\ \A i \in 1..(n - 1) :
             StrLess(Suffix(self.text, self.suffix_array[i]),
                     Suffix(self.text, self.suffix_array[i + 1]))
       /\ self.sa_loop.exit \in {"early", "bound"}
       /\ (n = 1) => self.suffix_array = <<0>>

SuffixArraySortedWitness ==
    /\ ~fresh
    /\ ret.outcome = "ok"
    /\ lastOp \in {"insert", "delete"}
    /\ self.sa_loop.exit = "early"
    /\ self.sa_loop.passes >= 2

\* C7: BWT has the length of Text, and BWT[i] is Text[sa[i]-1] when
\* sa[i] # 0 and '$' when sa[i] = 0, for the current Text and suffix array.
BwtMatchesText ==
    /\ Len(self.bwt) = Len(self.text)
    /\ Len(self.suffix_array) = Len(self.text)
    /\ \A i \in 1..Len(self.text) :
          self.bwt[i] = IF self.suffix_array[i] # 0
                        THEN self.text[self.suffix_array[i]]
                        ELSE Sentinel

BwtMatchesTextWitness ==
    /\ ~fresh
    /\ lastOp = "delete"
    /\ ret.outcome = "ok"
    /\ Len(self.text) >= 3
    /\ self.bwt # self.text

\* C8: the Rank Table has one entry per distinct character of the BWT, each
\* of length n; rank[c][i] is the number of occurrences of c in BWT[0..i]
\* inclusive, so it never decreases and ends at the total count of c.
RankTableCounts ==
    LET n == Len(self.bwt)
    IN /\ DOMAIN self.rank_array = Range(self.bwt)
       /\ \A c \in DOMAIN self.rank_array :
             /\ Len(self.rank_array[c]) = n
             /\ \A i \in 1..n :
                   self.rank_array[c][i] =
                       Cardinality({j \in 1..i : self.bwt[j] = c})
             /\ \A i \in 2..n : self.rank_array[c][i] >= self.rank_array[c][i - 1]
             /\ self.rank_array[c][n] = Count(self.bwt, c)

RankTableCountsWitness ==
    /\ ~fresh
    /\ ret.outcome = "ok"
    /\ \E c \in DOMAIN self.rank_array :
          /\ self.rank_array[c][1] = 0
          /\ self.rank_array[c][Len(self.bwt)] >= 2

\* C9: over the distinct characters of the BWT in sorted order, C starts at
\* 0, each next value adds the count of the previous character, the values
\* increase strictly, and the last value plus its count is n.
CTablePartition ==
    LET chars == SortedSeq(Range(self.bwt))
        m == Len(chars)
    IN /\ DOMAIN self.c_table = Range(self.bwt)
       /\ self.c_table[chars[1]] = 0
       /\ \A j \in 1..(m - 1) :
             /\ self.c_table[chars[j + 1]] =
                    self.c_table[chars[j]] + Count(self.bwt, chars[j])
             /\ self.c_table[chars[j]] < self.c_table[chars[j + 1]]
       /\ self.c_table[chars[m]] + Count(self.bwt, chars[m]) = Len(self.bwt)

CTablePartitionWitness ==
    /\ ~fresh
    /\ ret.outcome = "ok"
    /\ Cardinality(DOMAIN self.c_table) = 3
    /\ \E c \in DOMAIN self.c_table : Count(self.bwt, c) >= 2 /\ self.c_table[c] >= 2

\* C10: when '$' is only the last character of Text and the pattern is free
\* of '$', every iteration of backward search reads the rank table inside
\* 0..n-1; an iteration that consumed the pattern suffix s and did not return
\* leaves 0 <= l <= r <= n-1 with rows l..r exactly the rows whose suffix
\* starts with s; it returns [] early exactly when no suffix starts with s.
BackwardSearchRange ==
    (lastOp = "search" /\ argStr # <<>> /\ SentinelOnlyLast
                       /\ SentinelFree(argStr)) =>
        LET n == Len(self.text)
            m == Len(argStr)
        IN /\ ret.outcome = "ok"
           /\ Len(ret.trace) >= 1
           /\ \A t \in 1..Len(ret.trace) :
                 LET e == ret.trace[t]
                     s == SubSeq(argStr, m - e.consumed + 1, m)
                     rows == {i \in 0..(n - 1) :
                                StartsWith(Suffix(self.text, self.suffix_array[i + 1]), s)}
                 IN /\ e.consumed = t
                    /\ e.lookups \subseteq 0..(n - 1)
                    /\ e.early <=> (rows = {})
                    /\ e.early => t = Len(ret.trace)
                    /\ ~e.early =>
                          /\ 0 <= e.l /\ e.l <= e.r /\ e.r <= n - 1
                          /\ rows = e.l..e.r
           /\ ~ret.trace[Len(ret.trace)].early => Len(ret.trace) = m

BackwardSearchRangeWitness ==
    /\ lastOp = "search"
    /\ SentinelOnlyLast
    /\ SentinelFree(argStr)
    /\ Len(ret.trace) = 2
    /\ ~ret.trace[2].early
    /\ ret.trace[2].l < ret.trace[2].r
    /\ ret.trace[1].l > 0

====
